---- MODULE Spec2Model ----
(***************************************************************************)
(* Model of src/update.py.                                                 *)
(*                                                                         *)
(*   Spec        the aggregator: get_all_courses with its time-bounded     *)
(*               cache, the loop over the platform scrapers and the        *)
(*               deduplication by title; one platform_scraper() call is    *)
(*               one step.                                                 *)
(*   SpecRebuild one rebuild of the corpus, from the import of the module  *)
(*               to the return of get_all_courses, over every list the     *)
(*               scrapers can return within the bounds.                    *)
(*   SpecLoop    one rebuild, with platform scrapers that may raise.       *)
(*   SpecScrape  one invocation of scrape_platform, step by step:          *)
(*               setup_driver, safe_get_url, the scroll rounds, the card   *)
(*               extraction and the release of the browser session.        *)
(*   SpecScrapeLive  SpecScrape with the steps of the function taken as    *)
(*               long as one is possible.                                  *)
(*   SpecCard    the body of the loop over the cards of scrape_platform,   *)
(*               for one card, and the corpus made of its record.          *)
(*   SpecExtract the loop of scrape_platform over card_selectors.          *)
(*   SpecThreads get_all_courses called from two threads.                  *)
(*   SpecThreadsClock  the same while the clock advances.                  *)
(*   SpecSearch  one invocation of search_courses, over a family of        *)
(*               queries and corpora.                                      *)
(*   SpecGradio  one invocation of gradio_search.                          *)
(*   SpecRequests  gradio_search called again and again after the import.   *)
(***************************************************************************)
EXTENDS Integers, Sequences, FiniteSets, TLC

VARIABLES
    clock,            \* time.time(), in seconds
    cached_courses,   \* global cached_courses (None or a DataFrame object)
    last_cache_time,  \* global last_cache_time
    pc,               \* position of the get_all_courses caller
    current_time,     \* local current_time of get_all_courses
    all_courses,      \* local all_courses of get_all_courses
    si,               \* index of platform_scraper in platform_scrapers
    ret,              \* value returned by the last get_all_courses call
    calls,            \* number of get_all_courses calls started
    pre,              \* globals and clock as the running/last call found them
    outcome,          \* how the last completed call ended
    retClock,         \* clock at the last return of get_all_courses
    scrapersRun,      \* platform scrapers invoked by the running/last call
    returned,         \* what each platform scraper returned in this rebuild
    loadFailed,       \* a scraper of this rebuild whose page never loaded, or 0
    yielded,          \* records the pages have yielded so far
    invoked,          \* platforms whose scraper the running/last call invoked
    raisedAt,         \* a scraper of this rebuild that raised, or 0
    sp,               \* position inside scrape_platform
    platform,         \* parameter platform of scrape_platform
    driver,           \* local driver of scrape_platform
    attempt,          \* loop variable of safe_get_url
    courses,          \* local courses of scrape_platform
    exitPath,         \* exit path of this scrape_platform invocation
    acquired,         \* this scrape_platform invocation got a driver
    quitCalls,        \* driver.quit() calls of this scrape_platform invocation
    quitRaised,       \* driver.quit() raised in this scrape_platform invocation
    result,           \* value scrape_platform returned
    loads,            \* driver.get calls of this safe_get_url invocation
    sleeps,           \* time.sleep calls of this safe_get_url invocation
    loaded,           \* value safe_get_url returned
    round,            \* scroll_to_bottom calls of this scrape_platform call
    retry_count,      \* local retry_count of scroll_to_bottom
    scrolls,          \* iterations of the loop of this scroll_to_bottom call
    unchangedRun,     \* latest iterations in a row that left the height as is
    model,            \* global model (the SentenceTransformer or None)
    query,            \* parameter query of search_courses
    df,               \* parameter df of search_courses
    tie,              \* how topk orders candidates of equal similarity
    sc,               \* position inside search_courses
    similarities,     \* local similarities of search_courses
    top_results,      \* local top_results.indices of search_courses
    results,          \* value search_courses returned
    encodeCalls,      \* model.encode calls of this search_courses invocation
    gp,               \* position inside gradio_search
    html,             \* value gradio_search returned
    escaped,          \* functions an exception has propagated out of
    card,             \* loop variable card of scrape_platform
    cp,               \* position inside the body of the loop over the cards
    title_tag,        \* local title_tag: index of a node of card, 0 for None
    title,            \* local title
    course_link,      \* local course_link
    course_info,      \* local course_info: <<>> for None, else <<the dict>>
    selector,         \* index of selector in card_selectors
    ep,               \* position inside the loop over card_selectors
    cardsLeft,        \* cards of the list `cards` not yet iterated over
    sources,          \* hint set that yielded each record of courses
    tried,            \* hint sets whose cards were looked up
    unvisited,        \* cards of hint sets left that the loop never reached
    th,               \* locals of get_all_courses in each thread
    complete,         \* corpora of the rebuilds whose eight scrapers have run
    startedAt,        \* current_time of each get_all_courses call of a thread
    available,        \* whether SentenceTransformer(...) would succeed now
    requests,         \* gradio_search calls since the import
    availableAtCall   \* available, as it was when gradio_search was called

aggVars == <<clock, cached_courses, last_cache_time, pc, current_time,
             all_courses, si, ret, calls, pre, outcome, retClock,
             scrapersRun, returned, loadFailed, yielded,
             invoked, raisedAt>>
scrapeVars == <<sp, platform, driver, attempt, courses, exitPath, acquired,
                quitCalls, quitRaised, result, loads, sleeps, loaded, round,
                retry_count, scrolls, unchangedRun>>
searchVars == <<model, query, df, tie, sc, similarities, top_results, results,
                encodeCalls>>
gradioVars == <<gp, html, escaped>>
cardVars == <<card, cp, title_tag, title, course_link, course_info>>
extractVars == <<selector, ep, cardsLeft, sources, tried, unvisited>>
threadVars == <<th, complete, startedAt>>
requestVars == <<available, requests, availableAtCall>>
otherExtVars == <<cardVars, extractVars, threadVars, requestVars>>
extVars == <<gradioVars, otherExtVars>>
vars == <<aggVars, scrapeVars, searchVars, extVars>>

-----------------------------------------------------------------------------
(* Program constants *)

CACHE_DURATION == 3600
max_retries == 3

Platforms == <<"Coursera", "Udemy", "Analytics Vidhya", "edX", "Khan Academy",
               "MIT OpenCourseWare", "freeCodeCamp", "Harvard Online Learning">>
NumScrapers == Len(Platforms)

(* Bounds of the model *)

MaxTicks == 3      \* the clock advances at most this many steps
MaxCalls == 3      \* get_all_courses is called at most this many times
MaxRecords == 3    \* records the pages yield during the rebuild of SpecRebuild
MaxCachedRecords == 1  \* records the pages yield in all under Spec

Titles == {"A", "B"}
ClockStep == CACHE_DURATION \div 2
\* line 330: time.time() counts from 1970, so when the module is imported the
\* clock is more than CACHE_DURATION past the initial last_cache_time of 0
StartClock == 2 * CACHE_DURATION
MaxClock == StartClock + MaxTicks * ClockStep

-----------------------------------------------------------------------------
(* Values *)

\* Python None for cached_courses; DataFrame objects carry an identity >= 1.
None == [id |-> 0, rows |-> <<>>]
DataFrame(ident, rows) == [id |-> ident, rows |-> rows]

NoDriver == "None"
Driver == "webdriver"

CourseInfo(ttl, plat) == [title |-> ttl, platform |-> plat]

SeqsUpTo(S, n) == UNION {[1..k -> S] : k \in 0..n}

-----------------------------------------------------------------------------
(* get_all_courses: pure parts *)

\* line 333: the cached corpus is served
IsFresh_Inclusive(cache, now, last) ==
    cache # None /\ (now - last) <= CACHE_DURATION
IsFresh(cache, now, last) == cache # None /\ (now - last) < CACHE_DURATION

\* lines 364-369: remove duplicates based on title, first occurrence kept
RECURSIVE DedupFrom(_, _, _, _)
DedupFrom(list, k, unique_courses, seen_titles) ==
    IF k > Len(list) THEN unique_courses
    ELSE LET course == list[k] IN
         IF course.title # "" /\ course.title \notin seen_titles
         THEN DedupFrom(list, k + 1, Append(unique_courses, course),
                        seen_titles \cup {course.title})
         ELSE DedupFrom(list, k + 1, unique_courses, seen_titles)

Dedup_KeepLast(list) ==
    LET lastOf(k) == \A j \in (k + 1)..Len(list) : list[j].title # list[k].title
        F[k \in 0..Len(list)] ==
            IF k = 0 THEN <<>>
            ELSE IF list[k].title # "" /\ lastOf(k) THEN Append(F[k - 1], list[k])
                 ELSE F[k - 1]
    IN F[Len(list)]
Dedup(list) == DedupFrom(list, 1, <<>>, {})

\* lines 356-357: all_courses.extend(courses) under `if courses:`
Extend(all, cs) == IF cs # <<>> THEN all \o cs ELSE all

-----------------------------------------------------------------------------
(* scrape_platform: pure parts *)

\* line 241: `if driver:` of the finally block
FinallyQuits_Never(drv) == FALSE
FinallyQuits(drv) == drv # NoDriver

\* lines 242-245: `except: pass` around driver.quit()
QuitErrorSwallowed_No == FALSE
QuitErrorSwallowed == TRUE

\* lines 158-233: what the card extraction of one page can return; every
\* record passed the test of line 222, so title and link are non-empty
Yields(plat, room) == SeqsUpTo({CourseInfo(t, plat) : t \in Titles}, room)

ExitPaths == {"nodriver", "loadfail", "exception", "extracted"}

\* lines 139-148, 233, 238: the list scrape_platform returns on each exit path
ScrapePlatform(path, extracted) ==
    IF path = "extracted" THEN extracted ELSE <<>>

-----------------------------------------------------------------------------
(* Initial states *)

NoPre == [cache |-> None, time |-> 0, outcome |-> "none", immediate |-> FALSE,
          age |-> 0]
NoReturned == [s \in 1..NumScrapers |-> <<>>]

AggIdle ==
    /\ clock = StartClock
    /\ cached_courses = None
    /\ last_cache_time = 0
    /\ pc = "idle"
    /\ current_time = 0
    /\ all_courses = <<>>
    /\ si = 0
    /\ ret = None
    /\ calls = 0
    /\ pre = NoPre
    /\ outcome = "none"
    /\ retClock = 0
    /\ scrapersRun = 0
    /\ returned = NoReturned
    /\ loadFailed = 0
    /\ invoked = <<>>
    /\ raisedAt = 0
    /\ yielded = 0

ScrapeIdle ==
    /\ sp = "none"
    /\ platform = "none"
    /\ driver = NoDriver
    /\ attempt = 0
    /\ courses = <<>>
    /\ exitPath = "none"
    /\ acquired = FALSE
    /\ quitCalls = 0
    /\ quitRaised = FALSE
    /\ result = <<>>
    /\ loads = 0
    /\ sleeps = 0
    /\ loaded = "none"
    /\ round = 0
    /\ retry_count = 0
    /\ scrolls = 0
    /\ unchangedRun = 0

SearchIdle ==
    /\ model = "SentenceTransformer"
    /\ query = 0
    /\ df = <<>>
    /\ tie = "first"
    /\ sc = "none"
    /\ similarities = <<>>
    /\ top_results = <<>>
    /\ results = <<>>
    /\ encodeCalls = 0

\* the module has been imported
GradioIdle ==
    /\ gp = "none"
    /\ html = "none"
    /\ escaped = {}

CardIdle ==
    /\ card = <<>>
    /\ cp = "none"
    /\ title_tag = 0
    /\ title = ""
    /\ course_link = <<>>
    /\ course_info = <<>>

ExtractIdle ==
    /\ selector = 0
    /\ ep = "none"
    /\ cardsLeft = 0
    /\ sources = <<>>
    /\ tried = {}
    /\ unvisited = 0

\* the threads that serve requests
Threads == {"t1", "t2"}

ThreadIdle ==
    /\ th = [t \in Threads |-> [pc |-> "none"]]
    /\ complete = {}
    /\ startedAt = <<>>

RequestIdle ==
    /\ available = TRUE
    /\ requests = 0
    /\ availableAtCall = TRUE

OtherExtIdle == CardIdle /\ ExtractIdle /\ ThreadIdle /\ RequestIdle

ExtIdle == GradioIdle /\ OtherExtIdle

Init == AggIdle /\ ScrapeIdle /\ SearchIdle /\ ExtIdle

-----------------------------------------------------------------------------
(* Environment: time passes. The clock is read only at line 330, so the    *)
(* time a rebuild takes is accounted for once its scrapers have run.       *)

Tick ==
    /\ pc \in {"idle", "merge"}
    /\ clock + ClockStep <= MaxClock
    /\ clock' = clock + ClockStep
    /\ UNCHANGED <<cached_courses, last_cache_time, pc, current_time,
                   all_courses, si, ret, calls, pre, outcome, retClock,
                   scrapersRun, returned, loadFailed, yielded, invoked,
                   raisedAt, scrapeVars,
                   searchVars, extVars>>

-----------------------------------------------------------------------------
(* get_all_courses *)

Snapshot ==
    [cache |-> cached_courses, time |-> last_cache_time, outcome |-> outcome,
     immediate |-> (calls > 0 /\ clock = retClock),
     age |-> clock - last_cache_time]

\* lines 329-335: the cache is fresh, the cached corpus is returned
ReturnCached ==
    /\ pc = "idle"
    /\ calls < MaxCalls
    /\ IsFresh(cached_courses, clock, last_cache_time)
    /\ current_time' = clock
    /\ calls' = calls + 1
    /\ pre' = Snapshot
    /\ scrapersRun' = 0
    /\ invoked' = <<>>
    /\ ret' = cached_courses
    /\ outcome' = "cached"
    /\ retClock' = clock
    /\ UNCHANGED <<clock, cached_courses, last_cache_time, pc, all_courses, si,
                   returned, loadFailed, yielded, raisedAt, scrapeVars,
                   searchVars, extVars>>

\* lines 329-353: the cache is stale or absent, the rebuild starts
StartRebuild(maxCalls) ==
    /\ pc = "idle"
    /\ calls < maxCalls
    /\ ~IsFresh(cached_courses, clock, last_cache_time)
    /\ current_time' = clock
    /\ calls' = calls + 1
    /\ pre' = Snapshot
    /\ scrapersRun' = 0
    /\ all_courses' = <<>>
    /\ returned' = NoReturned
    /\ loadFailed' = 0
    /\ invoked' = <<>>
    /\ raisedAt' = 0
    /\ si' = 1
    /\ pc' = "scraping"
    /\ UNCHANGED <<clock, cached_courses, last_cache_time, ret, outcome,
                   retClock, yielded, scrapeVars,
                   searchVars, extVars>>

\* lines 353-361: the next platform scraper runs (scrape_platform, lines
\* 137-245, catches what it raises); its list is added to all_courses
NextScraper_StopAtEmpty(cs) ==
    IF si < NumScrapers /\ cs # <<>>
    THEN si' = si + 1 /\ UNCHANGED pc
    ELSE si' = 0 /\ pc' = "merge"
NextScraper(cs) ==
    IF si < NumScrapers
    THEN si' = si + 1 /\ UNCHANGED pc
    ELSE si' = 0 /\ pc' = "merge"

\* lines 359-361: `continue` after a platform scraper raised
ContinuesAfterRaise_No == FALSE
ContinuesAfterRaise == TRUE

RunScraper(maxRecords, watched, watchedRaises) ==
    /\ pc = "scraping"
    /\ scrapersRun' = scrapersRun + 1
    /\ invoked' = Append(invoked, Platforms[si])
    /\ \E raised \in BOOLEAN :
       \E path \in ExitPaths :
       \E y \in Yields(Platforms[si], maxRecords - yielded) :
        LET cs == IF raised THEN <<>> ELSE ScrapePlatform(path, y) IN
        /\ path # "extracted" => y = <<>>
        /\ raised => path = "nodriver"
        /\ raisedAt' \in IF ~raised \/ si \notin watchedRaises
                           THEN {raisedAt}
                           ELSE IF raisedAt = 0 THEN {si}
                           ELSE {raisedAt, si}
        /\ yielded' = yielded + Len(y)
        /\ loadFailed' \in IF path # "loadfail" \/ si \notin watched
                             THEN {loadFailed}
                             ELSE IF loadFailed = 0 THEN {si}
                             ELSE {loadFailed, si}
        /\ returned' = [returned EXCEPT ![si] = cs]
        /\ all_courses' = Extend(all_courses, cs)
        /\ IF raised /\ ~ContinuesAfterRaise
           THEN si' = 0 /\ pc' = "merge"
           ELSE NextScraper(cs)
    /\ UNCHANGED <<clock, cached_courses, last_cache_time, current_time, ret,
                   calls, pre, outcome, retClock, scrapeVars,
                   searchVars, extVars>>

\* lines 363-376: deduplicate, replace the cache entry, return it
Merge_UnlessEmpty ==
    /\ pc = "merge"
    /\ IF all_courses = <<>>
       THEN UNCHANGED <<cached_courses, last_cache_time>>
       ELSE /\ cached_courses' = DataFrame(calls, Dedup(all_courses))
            /\ last_cache_time' = current_time
    /\ ret' = DataFrame(calls, Dedup(all_courses))
    /\ outcome' = "rebuilt"
    /\ retClock' = clock
    /\ pc' = "idle"
    /\ UNCHANGED <<clock, current_time, all_courses, si, calls, pre,
                   scrapersRun, returned, loadFailed, yielded, invoked,
                   raisedAt, scrapeVars,
                   searchVars, extVars>>
Merge ==
    /\ pc = "merge"
    /\ cached_courses' = DataFrame(calls, Dedup(all_courses))
    /\ last_cache_time' = current_time
    /\ ret' = cached_courses'
    /\ outcome' = "rebuilt"
    /\ retClock' = clock
    /\ pc' = "idle"
    /\ UNCHANGED <<clock, current_time, all_courses, si, calls, pre,
                   scrapersRun, returned, loadFailed, yielded, invoked,
                   raisedAt, scrapeVars,
                   searchVars, extVars>>

\* lines 363-372, 377-383: the merge raises before the cache entry is
\* assigned; the previous corpus, or an empty DataFrame, is returned
MergeRaises_Clobber ==
    /\ pc = "merge"
    /\ cached_courses' = DataFrame(calls, <<>>)
    /\ ret' = cached_courses'
    /\ outcome' = "failed"
    /\ retClock' = clock
    /\ pc' = "idle"
    /\ UNCHANGED <<clock, last_cache_time, current_time, all_courses, si,
                   calls, pre, scrapersRun, returned, loadFailed, yielded,
                   invoked, raisedAt,
                   scrapeVars,
                   searchVars, extVars>>
MergeRaises ==
    /\ pc = "merge"
    /\ ret' = IF cached_courses # None THEN cached_courses
              ELSE DataFrame(calls, <<>>)
    /\ outcome' = "failed"
    /\ retClock' = clock
    /\ pc' = "idle"
    /\ UNCHANGED <<clock, cached_courses, last_cache_time, current_time,
                   all_courses, si, calls, pre, scrapersRun, returned,
                   loadFailed, yielded, invoked, raisedAt,
                   scrapeVars,
                   searchVars, extVars>>

\* the aggregator over time: calls of get_all_courses, one after the other
Next ==
    \/ Tick
    \/ ReturnCached
    \/ StartRebuild(MaxCalls)
    \/ RunScraper(MaxCachedRecords, {}, {})
    \/ Merge
    \/ MergeRaises

Spec == Init /\ [][Next]_vars

\* the first call of get_all_courses after the import: one rebuild
NextRebuild ==
    \/ StartRebuild(1)
    \/ RunScraper(MaxRecords, 1..NumScrapers, {})
    \/ Merge
    \/ MergeRaises

SpecRebuild == Init /\ [][NextRebuild]_vars

\* one rebuild whose platform scrapers may raise
NextLoop ==
    \/ StartRebuild(1)
    \/ RunScraper(MaxCachedRecords, {}, 1..NumScrapers)
    \/ Merge
    \/ MergeRaises

SpecLoop == Init /\ [][NextLoop]_vars

-----------------------------------------------------------------------------
(* get_all_courses called from several threads: each statement that reads   *)
(* or writes a global is a step of its own; a platform_scraper() call is one *)
(* step. In SpecThreads the clock stands still: a stamped corpus stays fresh. *)

MaxThreadCalls == 3    \* get_all_courses calls of all the threads together
MaxThreadRecords == 1  \* records the pages yield to all the threads together

Locals(p, n, all, i, r) ==
    [pc |-> p, id |-> n, current_time |-> clock, all_courses |-> all,
     si |-> i, ret |-> r]

\* line 353: the loop over platform_scrapers is over after scraper i
LoopDone_AfterFirst(i) == i >= 1
LoopDone(i) == i >= NumScrapers

InitThreads ==
    /\ AggIdle
    /\ ScrapeIdle
    /\ SearchIdle
    /\ GradioIdle
    /\ CardIdle
    /\ ExtractIdle
    /\ RequestIdle
    /\ th = [t \in Threads |-> Locals("idle", 0, <<>>, 0, None)]
    /\ complete = {}
    /\ startedAt = <<>>

notThreads == <<clock, pc, current_time, all_courses, si, ret, pre, outcome,
                retClock, scrapersRun, returned, loadFailed, invoked,
                raisedAt, scrapeVars,
                searchVars, gradioVars, cardVars, extractVars, requestVars>>

\* lines 329-338: a thread calls get_all_courses, reads the clock and the
\* two globals, and returns the cached corpus or starts a rebuild
ThreadCall(t) ==
    /\ th[t].pc = "idle"
    /\ calls < MaxThreadCalls
    /\ calls' = calls + 1
    /\ startedAt' = Append(startedAt, clock)
    /\ th' = [th EXCEPT ![t] =
                IF IsFresh(cached_courses, clock, last_cache_time)
                THEN Locals("idle", calls', <<>>, 0, cached_courses)
                ELSE Locals("scraping", calls', <<>>, 1, None)]
    /\ UNCHANGED <<notThreads, cached_courses, last_cache_time, yielded,
                   complete>>

\* lines 353-361: the next platform scraper of the thread runs
ThreadRunScraper(t, maxRecords) ==
    /\ th[t].pc = "scraping"
    /\ \E y \in Yields(Platforms[th[t].si], maxRecords - yielded) :
        LET all == Extend(th[t].all_courses, y) IN
        /\ yielded' = yielded + Len(y)
        /\ th' = [th EXCEPT ![t].all_courses = all,
                            ![t].si = IF LoopDone(@) THEN 0 ELSE @ + 1,
                            ![t].pc = IF LoopDone(th[t].si) THEN "merge"
                                      ELSE "scraping"]
        /\ complete' = IF th[t].si = NumScrapers
                       THEN complete \cup {Dedup(all)}
                       ELSE complete
    /\ UNCHANGED <<notThreads, cached_courses, last_cache_time, calls,
                   startedAt>>

\* lines 363-372: unique_courses is built from the local list, then the
\* global cached_courses is assigned the new DataFrame
ThreadAssignCache(t) ==
    /\ th[t].pc = "merge"
    /\ cached_courses' = DataFrame(th[t].id, Dedup(th[t].all_courses))
    /\ th' = [th EXCEPT ![t].pc = "stamp"]
    /\ UNCHANGED <<notThreads, last_cache_time, calls, yielded, complete,
                   startedAt>>

\* line 373: last_cache_time = current_time
ThreadStamp(t) ==
    /\ th[t].pc = "stamp"
    /\ last_cache_time' = th[t].current_time
    /\ th' = [th EXCEPT ![t].pc = "return"]
    /\ UNCHANGED <<notThreads, cached_courses, calls, yielded, complete,
                   startedAt>>

\* line 376: return cached_courses, the global as it is now
ThreadReturn(t) ==
    /\ th[t].pc = "return"
    /\ th' = [th EXCEPT ![t].pc = "idle", ![t].ret = cached_courses]
    /\ UNCHANGED <<notThreads, cached_courses, last_cache_time, calls,
                   yielded, complete, startedAt>>

\* lines 363-372, 377-383: the merge raises before the assignment of line
\* 372; the global as it is now, or an empty DataFrame, is returned
ThreadMergeRaises(t) ==
    /\ th[t].pc = "merge"
    /\ th' = [th EXCEPT ![t].pc = "idle",
                        ![t].ret = IF cached_courses # None
                                   THEN cached_courses
                                   ELSE DataFrame(th[t].id, <<>>)]
    /\ UNCHANGED <<notThreads, cached_courses, last_cache_time, calls,
                   yielded, complete, startedAt>>

NextThreads ==
    \E t \in Threads :
        \/ ThreadCall(t)
        \/ ThreadRunScraper(t, MaxThreadRecords)
        \/ ThreadAssignCache(t)
        \/ ThreadStamp(t)
        \/ ThreadReturn(t)
        \/ ThreadMergeRaises(t)

SpecThreads == InitThreads /\ [][NextThreads]_vars

\* two threads calling get_all_courses while time passes; the pages yield
\* no record, a corpus being told from another by the call that built it
NextThreadsClock ==
    \/ Tick
    \/ \E t \in Threads :
        \/ ThreadCall(t)
        \/ ThreadRunScraper(t, 0)
        \/ ThreadAssignCache(t)
        \/ ThreadStamp(t)
        \/ ThreadReturn(t)
        \/ ThreadMergeRaises(t)

SpecThreadsClock == InitThreads /\ [][NextThreadsClock]_vars

-----------------------------------------------------------------------------
(* scrape_platform, step by step *)

scroll_rounds == 5   \* line 151: for _ in range(5)
max_scrolls == 10    \* line 72
no_change_limit == 3 \* line 82: if retry_count >= 3

MaxCounted == 12     \* the iterations of one scroll loop are counted up to here

Range(f) == {f[k] : k \in DOMAIN f}

\* line 95: the attempt was the last one, safe_get_url returns False before
\* any sleep
LastAttempt_Never(att) == FALSE
LastAttempt(att) == att = max_retries - 1

\* lines 77-80: retry_count after an iteration of the scroll loop
NextRetryCount(count, same) == IF same THEN count + 1 ELSE 0

\* lines 73, 82-83: the scroll loop goes on after an iteration
ScrollAgain(count) == count < no_change_limit /\ count < max_scrolls

CountUp(n) == IF n < MaxCounted THEN n + 1 ELSE n

\* scrape_platform(url, platform, card_selectors) has just been called
InitScrape ==
    /\ AggIdle
    /\ SearchIdle
    /\ ExtIdle
    /\ sp = "setup"
    /\ platform \in Range(Platforms)
    /\ driver = NoDriver
    /\ attempt = 0
    /\ courses = <<>>
    /\ exitPath = "none"
    /\ acquired = FALSE
    /\ quitCalls = 0
    /\ quitRaised = FALSE
    /\ result = <<>>
    /\ loads = 0
    /\ sleeps = 0
    /\ loaded = "none"
    /\ round = 0
    /\ retry_count = 0
    /\ scrolls = 0
    /\ unchangedRun = 0

getVars == <<loads, sleeps, loaded>>
scrollVars == <<round, retry_count, scrolls, unchangedRun>>

\* lines 139-145, 47-65: setup_driver returns a driver or, after an error it
\* logs, None
SetupDriver ==
    /\ sp = "setup"
    /\ \E ok \in BOOLEAN :
        IF ok THEN /\ driver' = Driver
                   /\ acquired' = TRUE
                   /\ sp' = "get"
                   /\ UNCHANGED exitPath
        ELSE /\ driver' = NoDriver
             /\ acquired' = FALSE
             /\ sp' = "finally"
             /\ exitPath' = "nodriver"
    /\ UNCHANGED <<aggVars, searchVars, extVars, getVars, scrollVars,
                   platform, attempt, courses, quitCalls, quitRaised,
                   result>>

\* lines 87-98, 147-148: one iteration of the loop of safe_get_url: driver.get
\* and, when it raises, the handler of lines 93-97
SafeGetUrl ==
    /\ sp = "get"
    /\ loads' = loads + 1
    /\ \E raised \in BOOLEAN :
        IF ~raised
        THEN /\ loaded' = "True"
             /\ sp' = "scroll"
             /\ UNCHANGED <<attempt, exitPath, sleeps>>
        ELSE IF LastAttempt(attempt)
             THEN /\ loaded' = "False"
                  /\ sp' = "finally"
                  /\ exitPath' = "loadfail"
                  /\ UNCHANGED <<attempt, sleeps>>
             ELSE /\ sleeps' = sleeps + 1
                  /\ IF attempt + 1 < max_retries
                     THEN /\ attempt' = attempt + 1
                          /\ UNCHANGED <<sp, exitPath, loaded>>
                     ELSE /\ loaded' = "False"
                          /\ sp' = "finally"
                          /\ exitPath' = "loadfail"
                          /\ UNCHANGED attempt
    /\ UNCHANGED <<aggVars, searchVars, extVars, scrollVars,
                   platform, driver, courses, acquired, quitCalls,
                   quitRaised, result>>

\* the call of scroll_to_bottom returns and time.sleep follows (line 153)
EndRound ==
    /\ round' = round + 1
    /\ retry_count' = 0
    /\ scrolls' = 0
    /\ unchangedRun' = 0
    /\ sp' = "scroll"

\* lines 151-152, 69-72, 84-85: the next round calls scroll_to_bottom, which
\* reads the height of the page; an error of the driver ends the call
ScrollRound ==
    /\ sp = "scroll"
    /\ round < scroll_rounds
    /\ \E raised \in BOOLEAN :
        IF raised THEN EndRound
        ELSE /\ sp' = "scrolling"
             /\ retry_count' = 0
             /\ scrolls' = 0
             /\ unchangedRun' = 0
             /\ UNCHANGED round
    /\ UNCHANGED <<aggVars, searchVars, extVars, getVars,
                   platform, driver, attempt, courses, exitPath,
                   acquired, quitCalls, quitRaised, result>>

\* lines 73-85: one iteration of the loop of scroll_to_bottom; the page
\* decides whether its height is the same after the scroll
ScrollAttempt ==
    /\ sp = "scrolling"
    /\ scrolls' = CountUp(scrolls)
    /\ \E height \in {"same", "changed", "raised"} :
        IF height = "raised" THEN EndRound
        ELSE LET count == NextRetryCount(retry_count, height = "same") IN
             IF ScrollAgain(count)
             THEN /\ retry_count' = count
                  /\ unchangedRun' = IF height = "same" THEN unchangedRun + 1
                                     ELSE 0
                  /\ UNCHANGED <<sp, round>>
             ELSE /\ round' = round + 1
                  /\ retry_count' = 0
                  /\ unchangedRun' = 0
                  /\ sp' = "scroll"
    /\ UNCHANGED <<aggVars, searchVars, extVars, getVars,
                   platform, driver, attempt, courses, exitPath,
                   acquired, quitCalls, quitRaised, result>>

\* lines 151, 155, 235-238: after the last round driver.page_source is
\* parsed, or an exception is caught by the outer handler
PageSource ==
    /\ sp = "scroll"
    /\ round = scroll_rounds
    /\ \E raised \in BOOLEAN :
        IF raised THEN /\ sp' = "finally"
                       /\ exitPath' = "exception"
        ELSE /\ sp' = "extract"
             /\ UNCHANGED exitPath
    /\ UNCHANGED <<aggVars, searchVars, extVars, getVars, scrollVars,
                   platform, driver, attempt, courses, acquired,
                   quitCalls, quitRaised, result>>

\* lines 158-233: the cards of the page are extracted
ExtractCards ==
    /\ sp = "extract"
    /\ \E y \in Yields(platform, MaxRecords) : courses' = y
    /\ sp' = "finally"
    /\ exitPath' = "extracted"
    /\ UNCHANGED <<aggVars, searchVars, extVars, getVars, scrollVars,
                   platform, driver, attempt, acquired, quitCalls,
                   quitRaised, result>>

\* lines 240-245: the finally block; an error of driver.quit() is swallowed
ReleaseSession ==
    /\ sp = "finally"
    /\ IF FinallyQuits(driver)
       THEN /\ quitCalls' = quitCalls + 1
            /\ \E raised \in BOOLEAN :
                /\ quitRaised' = raised
                /\ sp' = IF raised /\ ~QuitErrorSwallowed THEN "raised"
                         ELSE "return"
       ELSE /\ sp' = "return"
            /\ UNCHANGED <<quitCalls, quitRaised>>
    /\ UNCHANGED <<aggVars, searchVars, extVars, getVars, scrollVars,
                   platform, driver, attempt, courses, exitPath,
                   acquired, result>>

\* the pending `return courses` (line 145, 148, 233 or 238) completes
ReturnCourses ==
    /\ sp = "return"
    /\ result' = courses
    /\ sp' = "done"
    /\ UNCHANGED <<aggVars, searchVars, extVars, getVars, scrollVars,
                   platform, driver, attempt, courses, exitPath,
                   acquired, quitCalls, quitRaised>>

NextScrape ==
    \/ SetupDriver
    \/ SafeGetUrl
    \/ ScrollRound
    \/ ScrollAttempt
    \/ PageSource
    \/ ExtractCards
    \/ ReleaseSession
    \/ ReturnCourses

SpecScrape == InitScrape /\ [][NextScrape]_vars

\* scrape_platform runs on: a step that is possible is eventually taken
SpecScrapeLive == SpecScrape /\ WF_vars(NextScrape)

\* The step RunScraper of the aggregator returns what scrape_platform returns;
\* the exit path "loadfail" is taken after max_retries failed attempts and
\* returns no record.
ScrapePlatformAgrees ==
    /\ sp = "done" => result = ScrapePlatform(exitPath, courses)
    /\ exitPath = "loadfail" => attempt = max_retries - 1 /\ courses = <<>>

-----------------------------------------------------------------------------
(* scrape_platform: the body of the loop over the cards, lines 167-223, for *)
(* one card of one platform, and what the aggregator makes of its record    *)

MaxNodes == 2    \* headings and text nodes of a card, in document order

\* a text and its str.strip(): the text without the white space around it
Text(core, padded) == [core |-> core, padded |-> padded]
Strip(text) == text.core

\* len() of the stripped texts of the model
StrLen(str) ==
    CASE str = "" -> 0
      [] str = "Python 101" -> 10
      [] str = "Python 1010" -> 11
      [] str = "<99 characters>" -> 99
      [] str = "<100 characters>" -> 100

HeadingTexts == {Text("", TRUE), Text("Python 101", TRUE)}
StringTexts ==
    {Text(c, TRUE) : c \in {"Python 101", "Python 1010", "<99 characters>",
                            "<100 characters>"}}

\* "hc": an h2, h3 or h4 whose class has title, heading or name in it; "h":
\* another h2, h3 or h4; "s": a text node
Nodes ==
    {[kind |-> k, text |-> x] : k \in {"hc", "h"}, x \in HeadingTexts}
        \cup {[kind |-> "s", text |-> x] : x \in StringTexts}

\* URLs as what they start with and the rest
EmptyUrl == <<>>
RelativeUrl == <<"/course/1">>
AbsoluteUrl == <<"http", "://site.org/course/1">>

\* line 196: course_link.startswith('http')
StartsWithHttp(url) == url # <<>> /\ url[1] = "http"

\* the first <a href> and the first <img> of the card, and the first ones
\* found in the elements above the card
NoAnchor == [found |-> FALSE, href |-> <<>>]
Anchor(href) == [found |-> TRUE, href |-> href]
Anchors == {NoAnchor, Anchor(EmptyUrl), Anchor(RelativeUrl),
            Anchor(AbsoluteUrl)}

NoImg == [found |-> FALSE, src |-> ""]
Img(src) == [found |-> TRUE, src |-> src]
Imgs == {NoImg, Img(""), Img("a.png")}

\* the elements above the card are looked at only when the card has no
\* anchor, no image of its own
Cards ==
    {[nodes |-> n, a |-> x, up |-> u, img |-> i, upimg |-> j] :
        n \in SeqsUpTo(Nodes, MaxNodes),
        x \in Anchors, u \in Anchors, i \in Imgs, j \in {NoImg, Img("b.png")}}

CardsOfModel ==
    {c \in Cards : (c.a.found => c.up = NoAnchor)
                    /\ (c.img.found => c.upimg = NoImg)}

\* card.find(...): the first node, in document order, that passes the test
Find(nodes, passing) ==
    IF \E k \in 1..Len(nodes) : nodes[k] \in passing
    THEN CHOOSE k \in 1..Len(nodes) :
            /\ nodes[k] \in passing
            /\ \A j \in 1..(k - 1) : nodes[j] \notin passing
    ELSE 0

\* the nodes that pass the test of line 172: a heading with a title class;
\* of line 176: any heading; of line 180: a text of more than 10 and less
\* than 100 characters once stripped
ClassMatching == {n \in Nodes : n.kind = "hc"}
Heading == {n \in Nodes : n.kind \in {"hc", "h"}}
TitleLike ==
    {n \in Nodes : /\ n.kind = "s"
                    /\ StrLen(Strip(n.text)) > 10
                    /\ StrLen(Strip(n.text)) < 100}

\* lines 171-180: methods 1, 2 and 3, each tried when the one before found
\* nothing
TitleTag_AnyHeadingFirst(c) ==
    IF Find(c.nodes, Heading) # 0 THEN Find(c.nodes, Heading)
    ELSE Find(c.nodes, TitleLike)
TitleTag(c) ==
    IF Find(c.nodes, ClassMatching) # 0 THEN Find(c.nodes, ClassMatching)
    ELSE IF Find(c.nodes, Heading) # 0 THEN Find(c.nodes, Heading)
    ELSE Find(c.nodes, TitleLike)

\* lines 186-192: the anchor of the card, else the first one above it
FindLink(c) == IF c.a.found THEN c.a ELSE c.up

\* lines 197-202: the prefix of the platform; three platforms have one
BaseUrl(plat) ==
    CASE plat = "Coursera" -> <<"http", "s://www.coursera.org">>
      [] plat = "Udemy" -> <<"http", "s://www.udemy.com">>
      [] plat = "Analytics Vidhya" ->
            <<"http", "s://courses.analyticsvidhya.com">>
      [] OTHER -> <<>>

\* lines 195-202
Resolve(href, plat) ==
    IF ~StartsWithHttp(href) THEN BaseUrl(plat) \o href ELSE href

\* lines 205-213
ImageUrl(c) ==
    LET img == IF c.img.found THEN c.img ELSE c.upimg
    IN IF img.found /\ img.src # "" THEN img.src ELSE ""

\* line 222: course_info['title'] and course_info['course_link']
Accepted_Any(info) == TRUE
Accepted(info) == info.title # "" /\ info.course_link # EmptyUrl

\* the loop of line 167 has just bound card
InitCard ==
    /\ AggIdle
    /\ SearchIdle
    /\ GradioIdle
    /\ ExtractIdle
    /\ ThreadIdle
    /\ RequestIdle
    /\ sp = "extract"
    /\ platform \in Range(Platforms)
    /\ driver = Driver
    /\ attempt = 0
    /\ courses = <<>>
    /\ exitPath = "none"
    /\ acquired = TRUE
    /\ quitCalls = 0
    /\ quitRaised = FALSE
    /\ result = <<>>
    /\ loads = 1
    /\ sleeps = 0
    /\ loaded = "True"
    /\ round = scroll_rounds
    /\ retry_count = 0
    /\ scrolls = 0
    /\ unchangedRun = 0
    /\ card \in CardsOfModel
    /\ cp = "title"
    /\ title_tag = 0
    /\ title = ""
    /\ course_link = <<>>
    /\ course_info = <<>>

notCard == <<clock, last_cache_time, pc, current_time, all_courses, si, ret,
             calls, pre, outcome, retClock, scrapersRun, returned,
             loadFailed, yielded, invoked, raisedAt,
             sp, platform, driver, attempt, exitPath,
             acquired, quitCalls, quitRaised, result, getVars, scrollVars,
             searchVars, gradioVars, extractVars, threadVars, requestVars,
             card>>

\* lines 169-183: the title
FindTitle ==
    /\ cp = "title"
    /\ title_tag' = TitleTag(card)
    /\ IF title_tag' = 0
       THEN cp' = "accept" /\ UNCHANGED title
       ELSE /\ title' = Strip(card.nodes[title_tag'].text)
            /\ cp' = "link"
    /\ UNCHANGED <<notCard, cached_courses, courses, course_link,
                   course_info>>

\* lines 185-202: the link, made absolute
FindCourseLink ==
    /\ cp = "link"
    /\ LET link == FindLink(card) IN
       IF ~link.found
       THEN cp' = "accept" /\ UNCHANGED course_link
       ELSE /\ course_link' = Resolve(link.href, platform)
            /\ cp' = "image"
    /\ UNCHANGED <<notCard, cached_courses, courses, title_tag, title,
                   course_info>>

\* lines 204-220: the image and the dict
BuildCourseInfo ==
    /\ cp = "image"
    /\ course_info' = <<[title |-> title, image_url |-> ImageUrl(card),
                         course_link |-> course_link,
                         platform |-> platform]>>
    /\ cp' = "accept"
    /\ UNCHANGED <<notCard, cached_courses, courses, title_tag, title,
                   course_link>>

\* lines 222-223: the record is kept if its title and its link are not empty
AcceptCourse ==
    /\ cp = "accept"
    /\ courses' = IF course_info # <<>> /\ Accepted(course_info[1])
                  THEN Append(courses, course_info[1])
                  ELSE courses
    /\ cp' = "merge"
    /\ UNCHANGED <<notCard, cached_courses, title_tag, title, course_link,
                   course_info>>

\* lines 356-357, 363-372: the aggregator adds the list to all_courses,
\* removes the duplicates and makes the corpus of it
CardIntoCorpus ==
    /\ cp = "merge"
    /\ cached_courses' = DataFrame(1, Dedup(Extend(<<>>, courses)))
    /\ cp' = "done"
    /\ UNCHANGED <<notCard, courses, title_tag, title, course_link,
                   course_info>>

NextCard ==
    \/ FindTitle
    \/ FindCourseLink
    \/ BuildCourseInfo
    \/ AcceptCourse
    \/ CardIntoCorpus

SpecCard == InitCard /\ [][NextCard]_vars

-----------------------------------------------------------------------------
(* scrape_platform: the loop over card_selectors, lines 158-233; what one   *)
(* card gives (a record, nothing, an exception) is the page's choice         *)

NumSelectors == 3  \* hint sets in the selectors of each scrape_* function
MaxCards == 2      \* cards one hint set finds

\* lines 161-165: the cards found by class, else the cards found by tag
CardsFound(byClass, byTag) == IF byClass # 0 THEN byClass ELSE byTag

\* the loop of line 158 is about to start
InitExtract ==
    /\ AggIdle
    /\ SearchIdle
    /\ GradioIdle
    /\ CardIdle
    /\ ThreadIdle
    /\ RequestIdle
    /\ sp = "extract"
    /\ platform \in Range(Platforms)
    /\ driver = Driver
    /\ attempt = 0
    /\ courses = <<>>
    /\ exitPath = "none"
    /\ acquired = TRUE
    /\ quitCalls = 0
    /\ quitRaised = FALSE
    /\ result = <<>>
    /\ loads = 1
    /\ sleeps = 0
    /\ loaded = "True"
    /\ round = scroll_rounds
    /\ retry_count = 0
    /\ scrolls = 0
    /\ unchangedRun = 0
    /\ selector = 1
    /\ ep = "find"
    /\ cardsLeft = 0
    /\ sources = <<>>
    /\ tried = {}
    /\ unvisited = 0

notExtract == <<aggVars, sp, platform, driver, attempt, exitPath, acquired,
                quitCalls, quitRaised, result, getVars, scrollVars,
                searchVars, gradioVars, cardVars, threadVars,
                requestVars>>

\* lines 228-230: the handler inside the loop over card_selectors: the rest
\* of this hint set is left, the loop goes on with the next one
NextSelector ==
    /\ selector' = selector + 1
    /\ ep' = "find"
    /\ cardsLeft' = 0

\* lines 158-165: the cards of the next hint set are looked up
FindCards ==
    /\ ep = "find"
    /\ selector <= NumSelectors
    /\ tried' = tried \cup {selector}
    /\ \E raised \in BOOLEAN :
        IF raised THEN NextSelector
        ELSE \E byClass \in 0..MaxCards : \E byTag \in byClass..MaxCards :
                /\ cardsLeft' = CardsFound(byClass, byTag)
                /\ ep' = "cards"
                /\ UNCHANGED selector
    /\ UNCHANGED <<notExtract, courses, sources, unvisited>>

\* lines 167-223, 228-230: the next card yields a record, is dropped, or
\* raises
ProcessCard ==
    /\ ep = "cards"
    /\ cardsLeft > 0
    /\ \E what \in {"record", "dropped", "raised"} :
        CASE what = "record" ->
                /\ \E t \in Titles :
                    courses' = Append(courses, CourseInfo(t, platform))
                /\ sources' = Append(sources, selector)
                /\ cardsLeft' = cardsLeft - 1
                /\ UNCHANGED <<selector, ep, unvisited>>
          [] what = "dropped" ->
                /\ cardsLeft' = cardsLeft - 1
                /\ UNCHANGED <<selector, ep, unvisited, courses, sources>>
          [] what = "raised" ->
                /\ unvisited' = unvisited + (cardsLeft - 1)
                /\ NextSelector
                /\ UNCHANGED <<courses, sources>>
    /\ UNCHANGED <<notExtract, tried>>

\* lines 225-226: after the last card, `if courses: break`
EndOfCards ==
    /\ ep = "cards"
    /\ cardsLeft = 0
    /\ IF courses # <<>>
       THEN ep' = "return" /\ UNCHANGED <<selector, cardsLeft>>
       ELSE NextSelector
    /\ UNCHANGED <<notExtract, courses, sources, tried, unvisited>>

\* lines 158, 232-233: no hint set is left
SelectorsExhausted ==
    /\ ep = "find"
    /\ selector > NumSelectors
    /\ ep' = "return"
    /\ UNCHANGED <<notExtract, courses, selector, cardsLeft, sources, tried,
                   unvisited>>

NextExtract ==
    \/ FindCards
    \/ ProcessCard
    \/ EndOfCards
    \/ SelectorsExhausted

SpecExtract == InitExtract /\ [][NextExtract]_vars

\* the records are of the kind the step ExtractCards draws from
ExtractYieldsRecords ==
    \A k \in 1..Len(courses) :
        courses[k] \in {CourseInfo(t, platform) : t \in Titles}

-----------------------------------------------------------------------------
(* search_courses *)

TopK == 30         \* line 402: similarities.topk(k=30)
MaxResults == 8    \* line 419: stop after 8 unique results

MaxCorpus == 32    \* rows of the corpus handed to search_courses
MaxDistinct == 10  \* distinct titles of that corpus
MaxQuery == 3      \* queries
SimLevels == 5     \* values a similarity takes

\* A corpus of n rows over m titles. "cyclic": the titles 1..m repeat in
\* turn; "tail": the titles 1..m-1 once, then title m in every further row.
MkCorpus(shape, n, m) ==
    [i \in 1..n |->
        [title |-> IF shape = "cyclic" THEN ((i - 1) % m) + 1
                   ELSE IF i < m THEN i ELSE m,
         platform |-> Platforms[((i - 1) % NumScrapers) + 1]]]

Corpora ==
    {MkCorpus(shape, n, m) :
        shape \in {"cyclic", "tail"}, n \in 0..MaxCorpus, m \in 1..MaxDistinct}

\* lines 396-401: the cosine similarity of the embeddings of the query and of
\* a title; one title has one embedding, so equal titles score equally
CosSim(q, ttl) == (q * ttl + (ttl \div 3)) % SimLevels

\* line 388: df.empty
DfEmpty_Never(d) == FALSE
DfEmpty(d) == Len(d) = 0

\* line 402: the indices of the k largest similarities, largest first; the
\* order among equal similarities is not specified (tie)
Before(sims, t, i, j) ==
    \/ sims[i] > sims[j]
    \/ sims[i] = sims[j] /\ (IF t = "first" THEN i <= j ELSE i >= j)

RECURSIVE TopkFrom(_, _, _, _)
TopkFrom(sims, left, k, t) ==
    IF k = 0 THEN <<>>
    ELSE LET best == CHOOSE i \in left : \A j \in left : Before(sims, t, i, j)
         IN <<best>> \o TopkFrom(sims, left \ {best}, k - 1, t)

TopkIndices(sims, k, t) == TopkFrom(sims, DOMAIN sims, k, t)

\* lines 404-423: the first occurrence of each title, up to 8 results
RECURSIVE CollectFrom(_, _, _, _, _, _)
CollectFrom(d, sims, idxs, k, seen_courses, res) ==
    IF k > Len(idxs) THEN res
    ELSE LET course == d[idxs[k]] IN
         IF course.title \notin seen_courses
         THEN LET res2 == Append(res, [title |-> course.title,
                                       platform |-> course.platform,
                                       score |-> sims[idxs[k]]])
              IN IF Len(res2) >= MaxResults THEN res2
                 ELSE CollectFrom(d, sims, idxs, k + 1,
                                  seen_courses \cup {course.title}, res2)
         ELSE CollectFrom(d, sims, idxs, k + 1, seen_courses, res)

RECURSIVE CollectAll(_, _, _, _, _)
CollectAll(d, sims, idxs, k, res) ==
    IF k > Len(idxs) \/ Len(res) >= MaxResults THEN res
    ELSE CollectAll(d, sims, idxs, k + 1,
                    Append(res, [title |-> d[idxs[k]].title,
                                 platform |-> d[idxs[k]].platform,
                                 score |-> sims[idxs[k]]]))

CollectResults_NoSeen(d, sims, idxs) == CollectAll(d, sims, idxs, 1, <<>>)
CollectResults(d, sims, idxs) == CollectFrom(d, sims, idxs, 1, {}, <<>>)

\* line 425: sorted(results, key=score, reverse=True); the sort is stable
RECURSIVE InsertDesc(_, _)
InsertDesc(sorted, x) ==
    IF sorted = <<>> THEN <<x>>
    ELSE IF Head(sorted).score >= x.score
         THEN <<Head(sorted)>> \o InsertDesc(Tail(sorted), x)
         ELSE <<x>> \o sorted

RECURSIVE InsertAsc(_, _)
InsertAsc(sorted, x) ==
    IF sorted = <<>> THEN <<x>>
    ELSE IF Head(sorted).score <= x.score
         THEN <<Head(sorted)>> \o InsertAsc(Tail(sorted), x)
         ELSE <<x>> \o sorted

RECURSIVE SortWith(_, _, _)
SortWith(res, k, asc) ==
    IF k = 0 THEN <<>>
    ELSE IF asc THEN InsertAsc(SortWith(res, k - 1, asc), res[k])
         ELSE InsertDesc(SortWith(res, k - 1, asc), res[k])

SortedByScore_Ascending(res) == SortWith(res, Len(res), TRUE)
SortedByScore(res) == SortWith(res, Len(res), FALSE)

\* search_courses(query, df) has just been called; the import of the module
\* left model set or None (lines 40-45)
InitSearch ==
    /\ AggIdle
    /\ ScrapeIdle
    /\ ExtIdle
    /\ model \in {"None", "SentenceTransformer"}
    /\ query \in 1..MaxQuery
    /\ df \in Corpora
    /\ tie \in {"first", "last"}
    /\ sc = "start"
    /\ similarities = <<>>
    /\ top_results = <<>>
    /\ results = <<>>
    /\ encodeCalls = 0

\* lines 388-389: an empty corpus
ReturnEmpty ==
    /\ sc = "start"
    /\ DfEmpty(df)
    /\ results' = <<>>
    /\ sc' = "done"
    /\ UNCHANGED <<aggVars, scrapeVars, extVars,
                   model, query, df, tie, similarities,
                   top_results, encodeCalls>>

\* lines 391-393: the model is not initialized
ReturnNoModel ==
    /\ sc = "start"
    /\ ~DfEmpty(df)
    /\ model = "None"
    /\ results' = <<>>
    /\ sc' = "done"
    /\ UNCHANGED <<aggVars, scrapeVars, extVars,
                   model, query, df, tie, similarities,
                   top_results, encodeCalls>>

\* lines 426-429: `except Exception` around the body of search_courses
SearchCatches_No == FALSE
SearchCatches == TRUE

\* lines 426-429: an exception raised in the body of search_courses; the
\* handler returns []
RaiseInSearch ==
    /\ results' = <<>>
    /\ sc' = "done"
    /\ escaped' = IF SearchCatches THEN escaped
                  ELSE escaped \cup {"search_courses"}

\* lines 396-398, 426-429: model.encode raises, at the first or at the second
\* call
EncodeRaises ==
    /\ sc = "start"
    /\ ~DfEmpty(df)
    /\ model # "None"
    /\ \E call \in 1..2 : encodeCalls' = encodeCalls + call
    /\ RaiseInSearch
    /\ UNCHANGED <<aggVars, scrapeVars, otherExtVars, gp, html,
                   model, query, df, tie, similarities, top_results>>

\* lines 396-401: the query and the titles are encoded, the similarities
\* computed
Encode ==
    /\ sc = "start"
    /\ ~DfEmpty(df)
    /\ model # "None"
    /\ encodeCalls' = encodeCalls + 2
    /\ similarities' = [i \in 1..Len(df) |-> CosSim(query, df[i].title)]
    /\ sc' = "topk"
    /\ UNCHANGED <<aggVars, scrapeVars, extVars,
                   model, query, df, tie, top_results,
                   results>>

\* lines 402, 426-429: topk(k=30) of fewer than 30 similarities raises; the
\* outer handler returns []
TopkRaises ==
    /\ sc = "topk"
    /\ Len(similarities) < TopK
    /\ RaiseInSearch
    /\ UNCHANGED <<aggVars, scrapeVars, otherExtVars, gp, html,
                   model, query, df, tie, similarities,
                   top_results, encodeCalls>>

\* line 402: the 30 best candidates
Topk ==
    /\ sc = "topk"
    /\ Len(similarities) >= TopK
    /\ top_results' = TopkIndices(similarities, TopK, tie)
    /\ sc' = "collect"
    /\ UNCHANGED <<aggVars, scrapeVars, extVars,
                   model, query, df, tie, similarities,
                   results, encodeCalls>>

\* lines 404-425: the loop over the candidates and the final sort
Rank ==
    /\ sc = "collect"
    /\ results' = SortedByScore(CollectResults(df, similarities, top_results))
    /\ sc' = "done"
    /\ UNCHANGED <<aggVars, scrapeVars, extVars,
                   model, query, df, tie, similarities,
                   top_results, encodeCalls>>

NextSearch ==
    \/ ReturnEmpty
    \/ ReturnNoModel
    \/ EncodeRaises
    \/ Encode
    \/ TopkRaises
    \/ Topk
    \/ Rank

SpecSearch == InitSearch /\ [][NextSearch]_vars

-----------------------------------------------------------------------------
(* gradio_search *)

\* line 456: `not query or not query.strip()`; query 0 stands for the empty
\* and the all-blank strings
QueryBlank(q) == q = 0

\* lines 552-560: `except Exception` around the body of gradio_search
GradioCatches_No == FALSE
GradioCatches == TRUE

\* the HTML fragments gradio_search returns
HtmlKinds == {"model_error", "enter_term", "no_courses", "cards", "no_found",
              "error"}
Html(kind, cards) == [kind |-> kind, cards |-> cards]

\* gradio_search(query) has just been called; the import of the module left
\* model set or None (lines 40-45)
InitGradio ==
    /\ AggIdle
    /\ ScrapeIdle
    /\ OtherExtIdle
    /\ model \in {"None", "SentenceTransformer"}
    /\ query \in 0..MaxQuery
    /\ df = <<>>
    /\ tie \in {"first", "last"}
    /\ sc = "none"
    /\ similarities = <<>>
    /\ top_results = <<>>
    /\ results = <<>>
    /\ encodeCalls = 0
    /\ gp = "start"
    /\ html = "none"
    /\ escaped = {}

\* lines 448-454: the model is not initialized
GradioNoModel ==
    /\ gp = "start"
    /\ model = "None"
    /\ html' = Html("model_error", 0)
    /\ gp' = "done"
    /\ UNCHANGED <<aggVars, scrapeVars, searchVars, otherExtVars, escaped>>

\* lines 456-462: no search term
GradioBlankQuery ==
    /\ gp = "start"
    /\ model # "None"
    /\ QueryBlank(query)
    /\ html' = Html("enter_term", 0)
    /\ gp' = "done"
    /\ UNCHANGED <<aggVars, scrapeVars, searchVars, otherExtVars, escaped>>

\* lines 552-560: an exception raised in the body of gradio_search
RaiseInGradio ==
    /\ gp' = "done"
    /\ IF GradioCatches
       THEN html' = Html("error", 0) /\ UNCHANGED escaped
       ELSE html' = "none" /\ escaped' = escaped \cup {"gradio_search"}

\* lines 465, 552-560: get_all_courses fails with an exception
GradioCoursesRaise ==
    /\ gp = "start"
    /\ model # "None"
    /\ ~QueryBlank(query)
    /\ RaiseInGradio
    /\ UNCHANGED <<aggVars, scrapeVars, searchVars, otherExtVars>>

\* lines 465-474: get_all_courses returns a corpus; an empty one ends the
\* request, another one is handed to search_courses
GradioGetCourses ==
    /\ gp = "start"
    /\ model # "None"
    /\ ~QueryBlank(query)
    /\ \E d \in Corpora :
        /\ df' = d
        /\ IF DfEmpty(d)
           THEN /\ html' = Html("no_courses", 0)
                /\ gp' = "done"
                /\ UNCHANGED sc
           ELSE /\ gp' = "search"
                /\ sc' = "start"
                /\ UNCHANGED html
    /\ UNCHANGED <<aggVars, scrapeVars, otherExtVars, escaped,
                   model, query, tie, similarities, top_results, results,
                   encodeCalls>>

\* lines 476-543: one card for each result; a result whose rendering raises
\* is left out (lines 538-540)
GradioRender ==
    /\ gp = "search"
    /\ sc = "done"
    /\ results # <<>>
    /\ \E rendered \in 0..Len(results) : html' = Html("cards", rendered)
    /\ gp' = "done"
    /\ UNCHANGED <<aggVars, scrapeVars, searchVars, otherExtVars, escaped>>

\* lines 544-551: search_courses returned an empty list
GradioNoResults ==
    /\ gp = "search"
    /\ sc = "done"
    /\ results = <<>>
    /\ html' = Html("no_found", 0)
    /\ gp' = "done"
    /\ UNCHANGED <<aggVars, scrapeVars, searchVars, otherExtVars, escaped>>

NextGradio ==
    \/ GradioNoModel
    \/ GradioBlankQuery
    \/ GradioCoursesRaise
    \/ GradioGetCourses
    \/ EncodeRaises
    \/ Encode
    \/ TopkRaises
    \/ Topk
    \/ Rank
    \/ GradioRender
    \/ GradioNoResults

SpecGradio == InitGradio /\ [][NextGradio]_vars

-----------------------------------------------------------------------------
(* gradio_search, request after request, while the model comes and goes *)

MaxRequests == 2   \* gradio_search calls since the import

\* lines 40-45: the import sets the global model, to None if
\* SentenceTransformer(...) raises
ImportModel(canLoad) == IF canLoad THEN "SentenceTransformer" ELSE "None"

\* the module has been imported and the first gradio_search call is made
InitRequests ==
    /\ AggIdle
    /\ ScrapeIdle
    /\ CardIdle
    /\ ExtractIdle
    /\ ThreadIdle
    /\ available \in BOOLEAN
    /\ model = ImportModel(available)
    /\ query \in 0..MaxQuery
    /\ df = <<>>
    /\ tie \in {"first", "last"}
    /\ sc = "none"
    /\ similarities = <<>>
    /\ top_results = <<>>
    /\ results = <<>>
    /\ encodeCalls = 0
    /\ gp = "start"
    /\ html = "none"
    /\ escaped = {}
    /\ requests = 1
    /\ availableAtCall = available

\* line 41: what SentenceTransformer('all-MiniLM-L6-v2') needs (the files of
\* the model, the network to fetch them) appears or goes away; no line of
\* a request depends on it, so the change is taken between two requests
CapabilityChanges ==
    /\ gp = "done"
    /\ available' = ~available
    /\ UNCHANGED <<aggVars, scrapeVars, searchVars, gradioVars, cardVars,
                   extractVars, threadVars, requests, availableAtCall>>

\* lines 445-447: the next call of gradio_search; the global model is the
\* one the import left (no statement outside lines 40-45 assigns it)
NextRequest ==
    /\ gp = "done"
    /\ requests < MaxRequests
    /\ requests' = requests + 1
    /\ availableAtCall' = available
    /\ query' \in 0..MaxQuery
    /\ tie' \in {"first", "last"}
    /\ df' = <<>>
    /\ sc' = "none"
    /\ similarities' = <<>>
    /\ top_results' = <<>>
    /\ results' = <<>>
    /\ encodeCalls' = 0
    /\ gp' = "start"
    /\ html' = "none"
    /\ UNCHANGED <<aggVars, scrapeVars, cardVars, extractVars, threadVars,
                   model, escaped, available>>

NextRequests ==
    \/ CapabilityChanges
    \/ NextRequest
    \/ NextGradio

SpecRequests == InitRequests /\ [][NextRequests]_vars

-----------------------------------------------------------------------------
(* Properties *)

RECURSIVE ConcatTo(_, _)
ConcatTo(f, k) == IF k = 0 THEN <<>> ELSE ConcatTo(f, k - 1) \o f[k]

\* the records the platform scrapers yielded, in scraper order
YieldedRecords == ConcatTo(returned, NumScrapers)

TitlesOf(list) == {list[k].title : k \in 1..Len(list)}

FirstIndex(list, t) ==
    CHOOSE k \in 1..Len(list) :
        list[k].title = t /\ \A j \in 1..(k - 1) : list[j].title # t

Min2(a, b) == IF a <= b THEN a ELSE b

\* the running or last call of get_all_courses attempted a rebuild
Attempted == pc # "idle" \/ outcome \in {"rebuilt", "failed"}

\* C1: the corpus a rebuild builds has no two records with the same title,
\* has exactly one record for each distinct non-empty title the scrapers
\* yielded, that record is the first one with the title in scraper order,
\* and the first occurrences keep their relative order.
C1_DedupKeepsFirstSeen ==
    outcome = "rebuilt" =>
        LET corpus == cached_courses.rows
            input == YieldedRecords
        IN /\ \A i, j \in 1..Len(corpus) :
                i # j => corpus[i].title # corpus[j].title
           /\ TitlesOf(corpus) = TitlesOf(input) \ {""}
           /\ \A i \in 1..Len(corpus) :
                corpus[i] = input[FirstIndex(input, corpus[i].title)]
           /\ \A i, j \in 1..Len(corpus) :
                i < j => FirstIndex(input, corpus[i].title)
                            < FirstIndex(input, corpus[j].title)

\* a rebuild over three records, the third repeating the title of the first
C1_Witness ==
    /\ outcome = "rebuilt"
    /\ Len(YieldedRecords) = 3
    /\ YieldedRecords[1].title = YieldedRecords[3].title
    /\ YieldedRecords[1].platform # YieldedRecords[3].platform
    /\ YieldedRecords[2].title # YieldedRecords[1].title
    /\ Len(cached_courses.rows) = 2

\* C2: a call that starts when the previous call, which completed a
\* successful rebuild, has just returned is served the cached corpus object
\* and invokes no platform scraper, however long that rebuild took.
C2_ImmediateCallServedFromCache ==
    (calls >= 2 /\ pre.outcome = "rebuilt" /\ pre.immediate) =>
        /\ pc = "idle"
        /\ scrapersRun = 0
        /\ ret = pre.cache

\* C3 as stated: a rebuild is attempted if and only if no corpus is cached or
\* the age of the cache is above 3600 s; at an age of exactly 3600 s the
\* cached corpus is returned.
C3_RebuildIffOlderThanTTL ==
    calls >= 1 =>
        /\ Attempted <=> (pre.cache = None \/ pre.age > CACHE_DURATION)
        /\ ~Attempted => /\ ret = pre.cache
                         /\ cached_courses = pre.cache
                         /\ last_cache_time = pre.time

\* C3 (amended): a rebuild is attempted if and only if no corpus is cached or
\* the age of the cache is at least 3600 s; in every other case the cached
\* corpus is returned and the cache entry is not replaced.
C3_RebuildIffAtLeastTTL ==
    calls >= 1 =>
        /\ Attempted <=> (pre.cache = None \/ pre.age >= CACHE_DURATION)
        /\ ~Attempted => /\ ret = pre.cache
                         /\ cached_courses = pre.cache
                         /\ last_cache_time = pre.time

\* a call that finds a corpus aged exactly 3600 s and rebuilds
C3_Witness ==
    /\ calls >= 2
    /\ pre.cache # None
    /\ pre.age = CACHE_DURATION
    /\ outcome = "rebuilt"
    /\ pc = "idle"
    /\ cached_courses # pre.cache

\* C4: when the merge step of a rebuild raises, the call returns the
\* previously cached corpus if there is one and an empty corpus otherwise,
\* cached_courses and last_cache_time are as the call found them, and the
\* next call attempts a rebuild again.
C4_FailedMergeServesPrevious ==
    /\ (pc = "idle" /\ outcome = "failed") =>
        /\ IF pre.cache # None THEN ret = pre.cache
           ELSE ret # None /\ ret.rows = <<>>
        /\ cached_courses = pre.cache
        /\ last_cache_time = pre.time
    /\ (calls >= 1 /\ pre.outcome = "failed") => Attempted

\* a failed merge with a non-empty corpus cached before
C4_Witness ==
    /\ pc = "idle"
    /\ outcome = "failed"
    /\ pre.cache # None
    /\ pre.cache.rows # <<>>
    /\ ret = pre.cache

\* C9: a scraper whose page load failed on every attempt contributes no
\* record, all the scrapers still run, the corpus is the deduplicated
\* concatenation of what the other scrapers returned, and it is non-empty
\* when one of them returned a record.
C9_LoadFailureIsContained ==
    loadFailed # 0 =>
        LET others == [s \in 1..NumScrapers |->
                          IF s = loadFailed THEN <<>> ELSE returned[s]]
        IN /\ returned[loadFailed] = <<>>
           /\ \A k \in 1..Len(all_courses) :
                all_courses[k].platform # Platforms[loadFailed]
           /\ pc \in {"merge", "idle"} =>
                /\ scrapersRun = NumScrapers
                /\ all_courses = ConcatTo(others, NumScrapers)
           /\ outcome = "rebuilt" =>
                /\ cached_courses.rows = Dedup(ConcatTo(others, NumScrapers))
                /\ (\E s \in 1..NumScrapers : returned[s] # <<>>)
                      => cached_courses.rows # <<>>

\* a rebuild in which a page never loaded and a later scraper yielded records
C9_Witness ==
    /\ outcome = "rebuilt"
    /\ loadFailed # 0
    /\ \E s \in 1..NumScrapers : s > loadFailed /\ returned[s] # <<>>
    /\ \E s \in 1..NumScrapers : s < loadFailed /\ returned[s] # <<>>
    /\ cached_courses.rows # <<>>

\* C10: on every exit path on which scrape_platform acquired a driver,
\* driver.quit() is called exactly once, at the end, before the function
\* returns, and an error of driver.quit() does not leave the function.
C10_SessionReleasedOnce ==
    /\ sp \in {"return", "done"} => quitCalls = (IF acquired THEN 1 ELSE 0)
    /\ sp \notin {"return", "done", "raised"} => quitCalls = 0
    /\ sp # "raised"
    /\ sp = "done" => exitPath \in ExitPaths

\* an exception after the page load, and a driver.quit() that raises
C10_Witness ==
    /\ sp = "done"
    /\ acquired
    /\ exitPath = "exception"
    /\ quitRaised
    /\ quitCalls = 1

\* C5: search_courses returns at most 8 results, no two with the same title.
C5_AtMostEightDistinctTitles ==
    sc = "done" =>
        /\ Len(results) <= MaxResults
        /\ \A i, j \in 1..Len(results) :
            i # j => results[i].title # results[j].title

\* eight results from a corpus in which titles repeat
C5_Witness ==
    /\ sc = "done"
    /\ Len(results) = MaxResults
    /\ Cardinality(TitlesOf(df)) < Len(df)
    /\ \E i, j \in 1..Len(top_results) :
        i # j /\ df[top_results[i]].title = df[top_results[j]].title

\* C6: for a non-empty corpus and an initialized model whose encode calls
\* succeed, search_courses returns exactly min(8, number of distinct titles
\* among the up-to-30 best candidates) results, also for a corpus of fewer
\* than 30 rows.
C6_ExactResultCount ==
    (sc = "done" /\ Len(df) > 0 /\ model # "None"
        /\ Len(similarities) = Len(df)) =>
        LET best == TopkIndices(similarities, Min2(TopK, Len(df)), tie)
            titles == {df[best[k]].title : k \in 1..Len(best)}
        IN Len(results) = Min2(MaxResults, Cardinality(titles))

\* C7: the scores of the returned list are non-increasing by index.
C7_ScoresNonIncreasing ==
    sc = "done" =>
        \A i, j \in 1..Len(results) :
            i < j => results[i].score >= results[j].score

\* a returned list whose scores differ
C7_Witness ==
    /\ sc = "done"
    /\ Len(results) >= 2
    /\ results[1].score > results[Len(results)].score

\* C8: with an empty corpus search_courses returns an empty list, makes no
\* model.encode call and raises nothing, whatever the query and the model.
C8_EmptyCorpusNoEmbedding ==
    Len(df) = 0 =>
        /\ sc \in {"start", "done"}
        /\ encodeCalls = 0
        /\ sc = "done" => results = <<>>

\* an empty corpus searched with an initialized model
C8_Witness ==
    /\ sc = "done"
    /\ Len(df) = 0
    /\ model # "None"
    /\ query > 0

\* C11: every invocation of scrape_platform terminates, whatever the page
\* does: it reaches its return.
C11_ScrapeTerminates == <>(sp = "done")

\* C12: no exception leaves search_courses or gradio_search; search_courses
\* returns a list, and gradio_search returns one of its HTML fragments, for
\* every query and every failure of get_all_courses, of model.encode, of
\* topk and of the rendering of a result.
C12_SearchAlwaysWellFormed ==
    /\ escaped = {}
    /\ sc = "done" => results \in Seq(Range(results))
    /\ gp = "done" =>
        /\ html.kind \in HtmlKinds
        /\ sc = "done" <=> html.kind \in {"cards", "no_found"}
        /\ html.kind = "cards" => results # <<>> /\ html.cards <= Len(results)
        /\ html.kind = "no_found" => results = <<>>

\* model.encode raised at its first call: an empty list, then "no courses
\* found"
C12_Witness ==
    /\ gp = "done"
    /\ sc = "done"
    /\ encodeCalls = 1
    /\ results = <<>>
    /\ html = Html("no_found", 0)

\* C13: under every interleaving of the threads, the corpus in
\* cached_courses and the corpus returned to a caller is absent, empty, or
\* the deduplicated list of a rebuild whose eight scrapers have all run.
CompleteCorpus(c) ==
    \/ c = None
    \/ c.rows = <<>>
    \/ /\ c.rows \in complete
       /\ \A i, j \in 1..Len(c.rows) :
            i # j => c.rows[i].title # c.rows[j].title

C14_TitleAndLinkNonEmpty ==
    /\ \A k \in 1..Len(courses) :
        courses[k].title # "" /\ courses[k].course_link # EmptyUrl
    /\ \A k \in 1..Len(cached_courses.rows) :
        /\ cached_courses.rows[k].title # ""
        /\ cached_courses.rows[k].course_link # EmptyUrl

\* a record without image, from a card with a padded heading and an anchor
\* whose href is empty, on a platform that has a prefix
C14_Witness ==
    /\ cp = "done"
    /\ Len(cached_courses.rows) = 1
    /\ cached_courses.rows[1].image_url = ""
    /\ card.a = Anchor(EmptyUrl)
    /\ cached_courses.rows[1].title = "Python 101"

\* C15: every record scrape_platform keeps has an absolute course_link, on
\* each of the eight platforms.
C15_CourseLinkAbsolute ==
    \A k \in 1..Len(courses) : StartsWithHttp(courses[k].course_link)

\* C16: the title comes from the first heading with a title class if the
\* card has one, else from its first heading if it has one, else from its
\* first text node of more than 10 and less than 100 characters.
C16_TitleFallbackOrder ==
    cp \notin {"none", "title"} =>
        LET n == card.nodes
            classed == {k \in 1..Len(n) : n[k].kind = "hc"}
            headings == {k \in 1..Len(n) : n[k].kind \in {"hc", "h"}}
            strings == {k \in 1..Len(n) :
                            /\ n[k].kind = "s"
                            /\ StrLen(n[k].text.core) \in 11..99}
            First(S) == CHOOSE k \in S : \A j \in S : k <= j
            chosen == IF classed # {} THEN First(classed)
                      ELSE IF headings # {} THEN First(headings)
                      ELSE IF strings # {} THEN First(strings)
                      ELSE 0
        IN /\ title_tag = chosen
           /\ chosen # 0 => title = n[chosen].text.core
           /\ \A k \in 1..Len(courses) : courses[k].title = title

\* a card whose plain heading comes before its heading with a title class
C16_Witness ==
    /\ cp = "done"
    /\ Len(card.nodes) = 2
    /\ card.nodes[1].kind = "h"
    /\ card.nodes[2].kind = "hc"
    /\ card.nodes[1].text # card.nodes[2].text
    /\ title_tag = 2
    /\ Len(courses) = 1

\* C19: an exception raised while one card is processed makes the loop skip
\* that card only: no card of a hint set is left unprocessed.
C19_OnlyFailingCardSkipped == unvisited = 0

\* C20: once a hint set has yielded a record no later hint set is tried, and
\* all the records of one scrape come from one hint set, also when an
\* exception is raised while a hint set is processed.
C20_SingleHintSetYields ==
    /\ \A i, j \in 1..Len(sources) : sources[i] = sources[j]
    /\ \A s \in tried : \A i \in 1..Len(sources) : s <= sources[i]

\* C17: safe_get_url calls driver.get at most 3 times, returns True at the
\* first call that succeeds and makes no further call, returns False only
\* after 3 failed calls, and sleeps only between two calls: never after a
\* success nor after the last failure.
C17_SafeGetUrlAttempts ==
    /\ [](/\ loads <= max_retries
          /\ loaded = "none" => sleeps = loads /\ attempt = loads
          /\ loaded = "True" => sleeps = loads - 1 /\ attempt = loads - 1
          /\ loaded = "False" => /\ loads = max_retries
                                 /\ sleeps = max_retries - 1
          /\ loaded # "none" => sp # "get"
          /\ sp \notin {"setup", "get", "finally", "return", "done"}
                => loaded = "True")
    /\ [][loaded # "none" => UNCHANGED <<loads, sleeps, loaded>>]_vars

\* three failed loads: two sleeps, then False
C17_Witness ==
    /\ sp = "done"
    /\ loaded = "False"
    /\ loads = max_retries
    /\ sleeps = max_retries - 1
    /\ exitPath = "loadfail"

\* C18: after a successful load scrape_platform calls scroll_to_bottom
\* exactly 5 times, one call makes at most 10 scroll attempts, and a call is
\* over once three attempts in a row left the height unchanged.
C18_ScrollRoundsBounded ==
    /\ round <= scroll_rounds
    /\ sp \in {"scroll", "scrolling"} => loaded = "True"
    /\ (loaded = "True" /\ sp \notin {"scroll", "scrolling"})
            => round = scroll_rounds
    /\ scrolls <= max_scrolls
    /\ sp = "scrolling" => unchangedRun < no_change_limit

\* C21 as stated: when several get_all_courses calls run concurrently and all
\* find the cache stale or absent, at most one of them is inside a rebuild
\* (the loop over the platform scrapers, lines 353-361) at a time.
C21_AtMostOneRebuild ==
    Cardinality({t \in Threads : th[t].pc = "scraping"}) <= 1

\* C21 (amended): each call that finds the cache stale or absent runs its own
\* rebuild, side by side with the rebuilds of the other callers, and a call
\* that finds the cache fresh runs none: a call enters the loop over the
\* platform scrapers if and only if at that moment no corpus is cached or
\* the cached one is at least 3600 s old.
C21_RebuildIffFoundStale ==
    [][\A t \in Threads :
        (th[t].pc = "idle" /\ th'[t] # th[t]) =>
            (th'[t].pc = "scraping" <=>
                \/ cached_courses = None
                \/ clock - last_cache_time >= CACHE_DURATION)]_vars

\* two rebuilds run side by side, of calls made at different times
C21_Witness ==
    /\ th["t1"].pc = "scraping"
    /\ th["t2"].pc = "scraping"
    /\ th["t1"].current_time < th["t2"].current_time

\* C22: a search request made while the embedding model is unavailable ends
\* with an error fragment and no exception leaves gradio_search; each later
\* request tries again to obtain the model, so a request made once the model
\* can be loaded is not answered with the "model not initialized" error.
C22_LaterRequestsRetryModel ==
    /\ escaped = {}
    /\ (gp = "done" /\ availableAtCall) => html # Html("model_error", 0)

\* C23: during one rebuild get_all_courses invokes each of the eight
\* registered platform scrapers exactly once, in registration order, whatever
\* the earlier scrapers did (raised, returned an empty list, returned
\* records): the scrapers invoked so far are always the first ones of the
\* registration order, and all eight have been invoked when the loop is over.
C23_EachScraperOnceInOrder ==
    /\ invoked = SubSeq(Platforms, 1, Len(invoked))
    /\ pc = "scraping" => Len(invoked) = si - 1
    /\ (pc = "merge" \/ (pc = "idle" /\ calls > 0)) => invoked = Platforms

\* a rebuild whose first scraper raised, whose second returned an empty list
\* and whose third returned records
C23_Witness ==
    /\ pc = "idle"
    /\ outcome = "rebuilt"
    /\ raisedAt = 1
    /\ returned[2] = <<>>
    /\ returned[3] # <<>>
    /\ invoked = Platforms

\* C24: under every interleaving of get_all_courses calls, with a clock that
\* never goes back, last_cache_time never decreases, and whenever no call is
\* between the two assignments of lines 372-373 the corpus in cached_courses
\* is the one built by the call whose current_time is in last_cache_time (a
\* rebuild that started earlier never overwrites one that started later).
C24_CacheMatchesTimestamp ==
    /\ [][last_cache_time' >= last_cache_time]_vars
    /\ []((cached_courses # None /\ \A t \in Threads : th[t].pc # "stamp")
            => last_cache_time = startedAt[cached_courses.id])

\* C25: a rebuild in which every platform scraper yields no record is a
\* successful build: its empty corpus, a new object, replaces the cache entry
\* and is stamped with the current_time of the call; and every call made
\* less than 3600 s after that timestamp, while the empty corpus is the cache
\* entry, returns that corpus and invokes no scraper.
C25_EmptyBuildIsCached ==
    /\ (pc = "idle" /\ outcome = "rebuilt" /\ returned = NoReturned) =>
        /\ cached_courses # None
        /\ cached_courses # pre.cache
        /\ cached_courses.rows = <<>>
        /\ last_cache_time = current_time
        /\ ret = cached_courses
    /\ (calls >= 1 /\ pre.cache # None /\ pre.cache.rows = <<>>
            /\ pre.age < CACHE_DURATION) =>
        /\ pc = "idle"
        /\ outcome = "cached"
        /\ scrapersRun = 0
        /\ invoked = <<>>
        /\ ret = pre.cache
        /\ cached_courses = pre.cache
        /\ last_cache_time = pre.time

\* the second call served the empty corpus of an all-empty rebuild, later on
C25_Witness ==
    /\ calls = 3
    /\ pc = "idle"
    /\ outcome = "cached"
    /\ pre.outcome = "cached"
    /\ ret # None
    /\ ret.rows = <<>>
    /\ returned = NoReturned
    /\ clock > last_cache_time

====
